---------------------------- MODULE Spec2Model ----------------------------
(***************************************************************************)
(* Model of pythonforandroid/recommendations.py: the version gate of      *)
(* python-for-android (check_ndk_version, read_ndk_version,               *)
(* check_target_api, check_ndk_api, check_python_version,                 *)
(* print_recommendations).                                                *)
(*                                                                         *)
(* Text is modelled as sequences of one-character strings, so that        *)
(* splitlines / startswith / split / strip / version parsing / formatting *)
(* are computed, not assumed.                                              *)
(***************************************************************************)
EXTENDS Integers, Sequences, FiniteSets

VARIABLES
    fs,        \* ndk_dir -> state of <ndk_dir>/source.properties
    pyver,     \* sys.version_info as <<major, minor>>, fixed for the process
    call,      \* the call made last: [fn, args]
    result,    \* what that call did: exception / logs / return value
    prevSame   \* result of the call just before it when that call was the
               \* same function with the same inputs, NoResult otherwise

vars == <<fs, pyver, call, result, prevSame>>

----------------------------------------------------------------------------
\* Bounds of the model

\* lines per multi-line source.properties
MaxLines == 2
\* NDK majors covered by the one-line files: MinMajor..MaxMajor
MaxMajor == 28
\* NDK minors covered by the one-line files: 0..MaxMinor
MaxMinor == 26
\* API levels tried around each threshold: threshold-ApiMargin..threshold+ApiMargin
ApiMargin == 1
\* interpreter versions tried: 1..MaxPyMajor x 0..MaxPyMinor
MaxPyMajor == 4
MaxPyMinor == 11

----------------------------------------------------------------------------
\* Program constants

MIN_NDK_VERSION == 27
MAX_NDK_VERSION == 27
RECOMMENDED_NDK_VERSION == <<"2", "8", "c">>
NDK_DOWNLOAD_URL ==
    <<"h", "t", "t", "p", "s", ":", "/", "/", "d", "e", "v", "e", "l", "o", "p", "e", "r", ".", "a", "n", "d", "r",
      "o", "i", "d", ".", "c", "o", "m", "/", "n", "d", "k", "/", "d", "o", "w", "n", "l", "o", "a", "d", "s", "/">>
MIN_TARGET_API == 30
RECOMMENDED_TARGET_API == 34
ARMEABI_MAX_TARGET_API == 21
MIN_NDK_API == 21
RECOMMENDED_NDK_API == 24

----------------------------------------------------------------------------
\* Characters, numbers and strings

Digits == <<"0", "1", "2", "3", "4", "5", "6", "7", "8", "9">>

Alphabet ==
    <<"a", "b", "c", "d", "e", "f", "g", "h", "i", "j", "k", "l", "m",
      "n", "o", "p", "q", "r", "s", "t", "u", "v", "w", "x", "y", "z">>

IsDigit(c) == \E d \in 1..10 : Digits[d] = c

DigitVal(c) == (CHOOSE d \in 1..10 : Digits[d] = c) - 1

\* ord() and chr() on the lower-case letters ('a' is 97)
ord(c) == 96 + (CHOOSE k \in 1..26 : Alphabet[k] = c)

chr(i) == Alphabet[i - 96]

\* str(n) / f"{n}" for a non-negative integer
RECURSIVE str(_)
str(n) ==
    IF n < 10 THEN <<Digits[n + 1]>>
    ELSE str(n \div 10) \o <<Digits[(n % 10) + 1]>>

\* int(s) for a non-empty string of digits
RECURSIVE int(_)
int(s) ==
    IF Len(s) = 0 THEN 0
    ELSE 10 * int(SubSeq(s, 1, Len(s) - 1)) + DigitVal(s[Len(s)])

IsWhitespace(c) == c \in {" ", "\t"}

\* str.strip()
RECURSIVE lstrip(_)
lstrip(s) ==
    IF Len(s) > 0 /\ IsWhitespace(s[1]) THEN lstrip(Tail(s)) ELSE s

RECURSIVE rstrip(_)
rstrip(s) ==
    IF Len(s) > 0 /\ IsWhitespace(s[Len(s)])
    THEN rstrip(SubSeq(s, 1, Len(s) - 1)) ELSE s

strip(s) == lstrip(rstrip(s))

\* str.startswith(prefix)
startswith(s, prefix) ==
    /\ Len(s) >= Len(prefix)
    /\ SubSeq(s, 1, Len(prefix)) = prefix

\* str.split(sep) for a one-character separator: always at least one part
RECURSIVE splitFrom(_, _, _, _)
splitFrom(s, sep, i, cur) ==
    IF i > Len(s) THEN <<cur>>
    ELSE IF s[i] = sep THEN <<cur>> \o splitFrom(s, sep, i + 1, <<>>)
    ELSE splitFrom(s, sep, i + 1, Append(cur, s[i]))

split(s, sep) == splitFrom(s, sep, 1, <<>>)

\* str.splitlines(): every newline ends a line, text left after the last
\* newline is a final line, and there is no empty final line
RECURSIVE splitlinesFrom(_, _, _)
splitlinesFrom(s, i, cur) ==
    IF i > Len(s) THEN (IF Len(cur) > 0 THEN <<cur>> ELSE <<>>)
    ELSE IF s[i] = "\n" THEN <<cur>> \o splitlinesFrom(s, i + 1, <<>>)
    ELSE splitlinesFrom(s, i + 1, Append(cur, s[i]))

splitlines(s) == splitlinesFrom(s, 1, <<>>)

\* sep.join(parts)
RECURSIVE join(_, _)
join(sep, parts) ==
    IF Len(parts) = 0 THEN <<>>
    ELSE IF Len(parts) = 1 THEN parts[1]
    ELSE parts[1] \o sep \o join(sep, Tail(parts))

----------------------------------------------------------------------------
\* packaging.version: a version is its release segment, a tuple of numbers.
\* Only the release grammar  [0-9]+(\.[0-9]+)*  is modelled (no epoch, pre,
\* post, dev or local part); the texts of the model stay inside it or are
\* rejected by the full grammar as well.

\* the absent value (None) where a version is expected
NoVersion == [release |-> <<>>]

Version(release) == [release |-> release]

\* Version.major / Version.minor: missing components read as 0
major(v) == IF Len(v.release) >= 1 THEN v.release[1] ELSE 0

minor(v) == IF Len(v.release) >= 2 THEN v.release[2] ELSE 0

IsNumber(part) == Len(part) > 0 /\ \A i \in 1..Len(part) : IsDigit(part[i])

\* packaging.version.parse(text): the Version, or InvalidVersion raised
parse(text) ==
    LET parts == split(text, ".")
    IN  IF \A i \in 1..Len(parts) : IsNumber(parts[i])
        THEN [ok |-> TRUE, version |-> Version([i \in 1..Len(parts) |-> int(parts[i])])]
        ELSE [ok |-> FALSE, version |-> NoVersion]

\* str(Version)
RECURSIVE joinNumbers(_)
joinNumbers(release) ==
    IF Len(release) = 0 THEN <<>>
    ELSE IF Len(release) = 1 THEN str(release[1])
    ELSE str(release[1]) \o <<".">> \o joinNumbers(Tail(release))

VersionStr(v) == joinNumbers(v.release)

\* Version.__lt__ compares the releases with trailing zeros dropped,
\* as tuples, left to right
RECURSIVE dropTrailingZeros(_)
dropTrailingZeros(release) ==
    IF Len(release) > 0 /\ release[Len(release)] = 0
    THEN dropTrailingZeros(SubSeq(release, 1, Len(release) - 1))
    ELSE release

RECURSIVE tupleLess(_, _)
tupleLess(a, b) ==
    IF Len(b) = 0 THEN FALSE
    ELSE IF Len(a) = 0 THEN TRUE
    ELSE IF a[1] # b[1] THEN a[1] < b[1]
    ELSE tupleLess(Tail(a), Tail(b))

\* a slip that compares component by component, independently
VersionLess_componentwise(a, b) ==
    major(a) < major(b) \/ minor(a) < minor(b)

VersionLess(a, b) ==
    tupleLess(dropTrailingZeros(a.release), dropTrailingZeros(b.release))

----------------------------------------------------------------------------
\* Messages, logs and outcomes

\* a formatted message: the template constant and its formatted arguments
Msg(template, args) == [template |-> template, args |-> args]

NoMsg == Msg("None", <<>>)

info(msg) == [level |-> "info", msg |-> msg]

warning(msg) == [level |-> "warning", msg |-> msg]

print(msg) == [level |-> "print", msg |-> msg]

\* normal return of value ret (NoVersion for a bare return) after logging
Return(log, ret) ==
    [exc |-> "none", message |-> NoMsg, instructions |-> NoMsg,
     log |-> log, ret |-> ret]

\* an exception of class exc leaving the function after logging
Raise(exc, message, instructions, log) ==
    [exc |-> exc, message |-> message, instructions |-> instructions,
     log |-> log, ret |-> NoVersion]

\* raise BuildInterruptingException(message, instructions=...); a raise
\* without the keyword passes NoMsg
BuildInterruptingException(message, instructions, log) ==
    Raise("BuildInterruptingException", message, instructions, log)

\* no call has been made
NoResult == Raise("no call", NoMsg, NoMsg, <<>>)

Warnings(r) == SelectSeq(r.log, LAMBDA e : e.level = "warning")

Infos(r) == SelectSeq(r.log, LAMBDA e : e.level = "info")

----------------------------------------------------------------------------
\* The NDK directory and its source.properties

NDK_DIR == <<"/", "o", "p", "t", "/", "n", "d", "k">>

Dirs == {NDK_DIR}

\* the key that read_ndk_version looks for
PKG_REVISION == <<"P", "k", "g", ".", "R", "e", "v", "i", "s", "i", "o", "n">>

\* the states of <ndk_dir>/source.properties: no such file, a file that
\* open() refuses (permission, a directory), a file whose bytes do not
\* decode as text, a text file
Missing == [kind |-> "missing", data |-> <<>>]

Denied == [kind |-> "denied", data |-> <<>>]

Undecodable == [kind |-> "undecodable", data |-> <<>>]

TextFile(data) == [kind |-> "text", data |-> data]

\* lines that multi-line files are made of
LineDesc == <<"P", "k", "g", ".", "D", "e", "s", "c", " ", "=", " ", "A", "n", "d", "r", "o", "i", "d", " ", "N", "D", "K">>

LineRev27 == PKG_REVISION \o <<" ", "=", " ", "2", "7", ".", "2", ".", "1", "2", "4", "7", "9", "0", "1", "8">>

LineRev26 == PKG_REVISION \o <<"=", "2", "6", ".", "1", ".", "1", "0", "9", "0", "9", "1", "2", "5">>

LineTwoEquals == PKG_REVISION \o <<" ", "=", " ", "2", "5", ".", "1", " ", "=", " ", "2", "8", ".", "2", "6", " ">>

LineNotAVersion == PKG_REVISION \o <<" ", "=", " ", "u", "n", "k", "n", "o", "w", "n">>

LineIndented == <<" ">> \o PKG_REVISION \o <<" ", "=", " ", "2", "9", ".", "0">>

LinePrefixMajorOnly == PKG_REVISION \o <<"s", "=", "2", "7">>

LineEmpty == <<>>

LinePool ==
    {LineDesc, LineRev27, LineRev26, LineTwoEquals, LineNotAVersion,
     LineIndented, LinePrefixMajorOnly, LineEmpty}

RECURSIVE LineSeqs(_)
LineSeqs(n) ==
    IF n = 0 THEN {<<>>}
    ELSE LET shorter == LineSeqs(n - 1)
         IN  shorter \cup {Append(ls, l) : ls \in {x \in shorter : Len(x) = n - 1}, l \in LinePool}

MultiLineFiles == {TextFile(join(<<"\n">>, ls)) : ls \in LineSeqs(MaxLines)}

\* "Pkg.Revision = <major>.<minor>.<build>" as the NDK ships it
RevisionLine(ma, mi) ==
    PKG_REVISION \o <<" ", "=", " ">> \o str(ma) \o <<".">> \o str(mi)
        \o <<".">> \o str(ma * 1000 + mi) \o <<"\n">>

OneLineFiles ==
    {TextFile(<<"P", "k", "g", ".", "D", "e", "s", "c", "\n">> \o RevisionLine(ma, mi)) :
        ma \in (MIN_NDK_VERSION - 1)..MaxMajor, mi \in 0..MaxMinor}

Files == {Missing, Denied, Undecodable} \cup MultiLineFiles \cup OneLineFiles

----------------------------------------------------------------------------
\* read_ndk_version

\* a slip that keeps scanning and lets a later matching line win
RECURSIVE scan_lines_last(_, _)
scan_lines_last(lines, i) ==
    IF i > Len(lines) THEN Return(<<info(Msg("PARSE_ERROR_NDK_MESSAGE", <<>>))>>, NoVersion)
    ELSE IF startswith(lines[i], PKG_REVISION)
              /\ ~ \E j \in (i + 1)..Len(lines) : startswith(lines[j], PKG_REVISION)
    THEN LET parts == split(lines[i], "=")
             parsed == parse(strip(parts[Len(parts)]))
         IN  IF parsed.ok THEN Return(<<>>, parsed.version)
             ELSE Raise("InvalidVersion", NoMsg, NoMsg, <<>>)
    ELSE scan_lines_last(lines, i + 1)

\* the loop over ndk_data.splitlines(), from line i on
RECURSIVE scan_lines(_, _)
scan_lines(lines, i) ==
    IF i > Len(lines) THEN Return(<<info(Msg("PARSE_ERROR_NDK_MESSAGE", <<>>))>>, NoVersion)
    ELSE IF startswith(lines[i], PKG_REVISION)
    THEN LET parts == split(lines[i], "=")
             unparsed_ndk_version == strip(parts[Len(parts)])
             parsed == parse(unparsed_ndk_version)
         IN  IF parsed.ok THEN Return(<<>>, parsed.version)
             ELSE Raise("InvalidVersion", NoMsg, NoMsg, <<>>)
    ELSE scan_lines(lines, i + 1)

read_ndk_version(ndk_dir) ==
    LET f == fs[ndk_dir]
    IN  IF f.kind \in {"missing", "denied"}
        THEN Return(<<info(Msg("UNKNOWN_NDK_MESSAGE", <<>>))>>, NoVersion)
        ELSE IF f.kind = "undecodable"
        THEN Raise("UnicodeDecodeError", NoMsg, NoMsg, <<>>)
        ELSE scan_lines(splitlines(f.data), 1)

----------------------------------------------------------------------------
\* check_ndk_version

\* a slip that starts the letters at 'a'
minor_to_letter_from_a ==
    [k \in {0} \cup {n + 1 : n \in 0..24} |->
        IF k = 0 THEN <<>> ELSE <<chr(ord("a") + (k - 1))>>]

\* {0: ""} updated with {n + 1: chr(i)} for the 25 codes i from ord("b")
minor_to_letter ==
    [k \in {0} \cup {n + 1 : n \in 0..24} |->
        IF k = 0 THEN <<>> ELSE <<chr(ord("b") + (k - 1))>>]

\* minor_to_letter.get(minor, '')
letter_of(m) ==
    IF m \in DOMAIN minor_to_letter THEN minor_to_letter[m] ELSE <<>>

string_version(ndk_version) ==
    str(major(ndk_version)) \o letter_of(minor(ndk_version))

\* a slip that rejects the minimum supported major as well
check_ndk_version_strict(ndk_dir) ==
    LET read == read_ndk_version(ndk_dir)
        ndk_version == read.ret
        found == read.log \o
            <<info(Msg("CURRENT_NDK_VERSION_MESSAGE", <<string_version(ndk_version)>>))>>
    IN  IF read.exc # "none" THEN read
        ELSE IF ndk_version = NoVersion
        THEN Return(read.log \o
                <<warning(Msg("READ_ERROR_NDK_MESSAGE", <<ndk_dir>>)),
                  warning(Msg("ENSURE_RIGHT_NDK_MESSAGE",
                      <<str(MIN_NDK_VERSION), RECOMMENDED_NDK_VERSION, NDK_DOWNLOAD_URL>>))>>,
                NoVersion)
        ELSE IF major(ndk_version) <= MIN_NDK_VERSION
        THEN BuildInterruptingException(
                Msg("NDK_LOWER_THAN_SUPPORTED_MESSAGE", <<str(MIN_NDK_VERSION), NDK_DOWNLOAD_URL>>),
                Msg("Please download a supported NDK", <<NDK_DOWNLOAD_URL, RECOMMENDED_NDK_VERSION>>),
                found)
        ELSE IF major(ndk_version) > MAX_NDK_VERSION
        THEN Return(found \o
                <<warning(Msg("RECOMMENDED_NDK_VERSION_MESSAGE", <<RECOMMENDED_NDK_VERSION>>)),
                  warning(Msg("NEW_NDK_MESSAGE", <<>>))>>,
                NoVersion)
        ELSE Return(found, NoVersion)

check_ndk_version(ndk_dir) ==
    LET read == read_ndk_version(ndk_dir)
        ndk_version == read.ret
        found == read.log \o
            <<info(Msg("CURRENT_NDK_VERSION_MESSAGE", <<string_version(ndk_version)>>))>>
    IN  IF read.exc # "none" THEN read
        ELSE IF ndk_version = NoVersion
        THEN Return(read.log \o
                <<warning(Msg("READ_ERROR_NDK_MESSAGE", <<ndk_dir>>)),
                  warning(Msg("ENSURE_RIGHT_NDK_MESSAGE",
                      <<str(MIN_NDK_VERSION), RECOMMENDED_NDK_VERSION, NDK_DOWNLOAD_URL>>))>>,
                NoVersion)
        ELSE IF major(ndk_version) < MIN_NDK_VERSION
        THEN BuildInterruptingException(
                Msg("NDK_LOWER_THAN_SUPPORTED_MESSAGE", <<str(MIN_NDK_VERSION), NDK_DOWNLOAD_URL>>),
                Msg("Please download a supported NDK", <<NDK_DOWNLOAD_URL, RECOMMENDED_NDK_VERSION>>),
                found)
        ELSE IF major(ndk_version) > MAX_NDK_VERSION
        THEN Return(found \o
                <<warning(Msg("RECOMMENDED_NDK_VERSION_MESSAGE", <<RECOMMENDED_NDK_VERSION>>)),
                  warning(Msg("NEW_NDK_MESSAGE", <<>>))>>,
                NoVersion)
        ELSE Return(found, NoVersion)

----------------------------------------------------------------------------
\* check_target_api

Archs == {"armeabi", "armeabi-v7a", "arm64-v8a"}

\* a slip that gives the fatal error no remediation text
check_target_api_no_instructions(api, arch) ==
    IF api >= ARMEABI_MAX_TARGET_API /\ arch = "armeabi"
    THEN BuildInterruptingException(
            Msg("UNSUPPORTED_NDK_API_FOR_ARMEABI_MESSAGE",
                <<str(api), str(ARMEABI_MAX_TARGET_API)>>),
            NoMsg,
            <<>>)
    ELSE IF api < MIN_TARGET_API
    THEN Return(<<warning(Msg("Target API {api} < {MIN_TARGET_API}",
                              <<str(api), str(MIN_TARGET_API)>>)),
                  warning(Msg("OLD_API_MESSAGE", <<>>))>>,
                NoVersion)
    ELSE Return(<<>>, NoVersion)

\* a slip that tests the API minimum before the architecture
check_target_api_warn_first(api, arch) ==
    IF api < MIN_TARGET_API
    THEN Return(<<warning(Msg("Target API {api} < {MIN_TARGET_API}",
                              <<str(api), str(MIN_TARGET_API)>>)),
                  warning(Msg("OLD_API_MESSAGE", <<>>))>>,
                NoVersion)
    ELSE IF api >= ARMEABI_MAX_TARGET_API /\ arch = "armeabi"
    THEN BuildInterruptingException(
            Msg("UNSUPPORTED_NDK_API_FOR_ARMEABI_MESSAGE",
                <<str(api), str(ARMEABI_MAX_TARGET_API)>>),
            Msg("Use --arch=armeabi-v7a instead.", <<>>),
            <<>>)
    ELSE Return(<<>>, NoVersion)

check_target_api(api, arch) ==
    IF api >= ARMEABI_MAX_TARGET_API /\ arch = "armeabi"
    THEN BuildInterruptingException(
            Msg("UNSUPPORTED_NDK_API_FOR_ARMEABI_MESSAGE",
                <<str(api), str(ARMEABI_MAX_TARGET_API)>>),
            Msg("Use --arch=armeabi-v7a instead.", <<>>),
            <<>>)
    ELSE IF api < MIN_TARGET_API
    THEN Return(<<warning(Msg("Target API {api} < {MIN_TARGET_API}",
                              <<str(api), str(MIN_TARGET_API)>>)),
                  warning(Msg("OLD_API_MESSAGE", <<>>))>>,
                NoVersion)
    ELSE Return(<<>>, NoVersion)

----------------------------------------------------------------------------
\* check_ndk_api

\* a slip that warns about an old NDK API only once per process
check_ndk_api_warn_once(ndk_api, android_api) ==
    IF ndk_api > android_api
    THEN BuildInterruptingException(
            Msg("TARGET_NDK_API_GREATER_THAN_TARGET_API_MESSAGE",
                <<str(ndk_api), str(android_api)>>),
            Msg("NDK API must be <= target Android API.", <<>>),
            <<>>)
    ELSE IF ndk_api < MIN_NDK_API
            /\ ~ \E i \in 1..Len(result.log) :
                    result.log[i].msg.template = "OLD_NDK_API_MESSAGE"
    THEN Return(<<warning(Msg("OLD_NDK_API_MESSAGE", <<str(MIN_NDK_API)>>))>>, NoVersion)
    ELSE Return(<<>>, NoVersion)

\* a slip that refuses an NDK API equal to the target API
check_ndk_api_strict(ndk_api, android_api) ==
    IF ndk_api >= android_api
    THEN BuildInterruptingException(
            Msg("TARGET_NDK_API_GREATER_THAN_TARGET_API_MESSAGE",
                <<str(ndk_api), str(android_api)>>),
            Msg("NDK API must be <= target Android API.", <<>>),
            <<>>)
    ELSE IF ndk_api < MIN_NDK_API
    THEN Return(<<warning(Msg("OLD_NDK_API_MESSAGE", <<str(MIN_NDK_API)>>))>>, NoVersion)
    ELSE Return(<<>>, NoVersion)

check_ndk_api(ndk_api, android_api) ==
    IF ndk_api > android_api
    THEN BuildInterruptingException(
            Msg("TARGET_NDK_API_GREATER_THAN_TARGET_API_MESSAGE",
                <<str(ndk_api), str(android_api)>>),
            Msg("NDK API must be <= target Android API.", <<>>),
            <<>>)
    ELSE IF ndk_api < MIN_NDK_API
    THEN Return(<<warning(Msg("OLD_NDK_API_MESSAGE", <<str(MIN_NDK_API)>>))>>, NoVersion)
    ELSE Return(<<>>, NoVersion)

----------------------------------------------------------------------------
\* check_python_version

MIN_PYTHON_VERSION == parse(<<"3", ".", "6">>).version

\* Version(f"{sys.version_info.major}.{sys.version_info.minor}")
CURRENT_PYTHON_VERSION == parse(str(pyver[1]) \o <<".">> \o str(pyver[2])).version

PY2_ERROR_TEXT == Msg("PY2_ERROR_TEXT", <<VersionStr(MIN_PYTHON_VERSION)>>)

PY_VERSION_ERROR_TEXT ==
    Msg("PY_VERSION_ERROR_TEXT",
        <<VersionStr(CURRENT_PYTHON_VERSION), VersionStr(MIN_PYTHON_VERSION)>>)

check_python_version ==
    IF pyver[1] = 2
    THEN BuildInterruptingException(PY2_ERROR_TEXT, NoMsg, <<>>)
    ELSE IF VersionLess(CURRENT_PYTHON_VERSION, MIN_PYTHON_VERSION)
    THEN BuildInterruptingException(PY_VERSION_ERROR_TEXT, NoMsg, <<>>)
    ELSE Return(<<>>, NoVersion)

----------------------------------------------------------------------------
\* print_recommendations

print_recommendations ==
    Return(<<print(Msg("Min supported NDK version", <<str(MIN_NDK_VERSION)>>)),
             print(Msg("Recommended NDK version", <<RECOMMENDED_NDK_VERSION>>)),
             print(Msg("Min target API", <<str(MIN_TARGET_API)>>)),
             print(Msg("Recommended target API", <<str(RECOMMENDED_TARGET_API)>>)),
             print(Msg("Min NDK API", <<str(MIN_NDK_API)>>)),
             print(Msg("Recommended NDK API", <<str(RECOMMENDED_NDK_API)>>))>>,
           NoVersion)

----------------------------------------------------------------------------
\* The build driver: it calls the checks, in any order, any number of times

TargetApis ==
    ((ARMEABI_MAX_TARGET_API - ApiMargin)..(ARMEABI_MAX_TARGET_API + ApiMargin))
        \cup ((MIN_TARGET_API - ApiMargin)..(MIN_TARGET_API + ApiMargin))

NdkApis ==
    ((MIN_NDK_API - ApiMargin)..(MIN_NDK_API + ApiMargin))
        \cup ((RECOMMENDED_NDK_API - ApiMargin)..(RECOMMENDED_NDK_API + ApiMargin))

AndroidApis == {MIN_NDK_API - ApiMargin - 1, MIN_NDK_API, RECOMMENDED_NDK_API}

PyVers == (1..MaxPyMajor) \X (0..MaxPyMinor)

\* the interpreter and the NDK directory of a run where the other one varies
DefaultPyVer == <<3, 8>>

DefaultFs == [d \in Dirs |-> Missing]

\* record the call fn(args) and its outcome r
Called(fn, args, r) ==
    /\ prevSame' = IF call.fn = fn /\ call.args = args THEN result ELSE NoResult
    /\ call' = [fn |-> fn, args |-> args]
    /\ result' = r
    /\ UNCHANGED <<fs, pyver>>

ReadNdkVersion ==
    \E ndk_dir \in Dirs :
        Called("read_ndk_version", <<ndk_dir>>, read_ndk_version(ndk_dir))

CheckNdkVersion ==
    \E ndk_dir \in Dirs :
        Called("check_ndk_version", <<ndk_dir>>, check_ndk_version(ndk_dir))

CheckTargetApi ==
    \E api \in TargetApis, arch \in Archs :
        Called("check_target_api", <<api, arch>>, check_target_api(api, arch))

CheckNdkApi ==
    \E ndk_api \in NdkApis, android_api \in AndroidApis :
        Called("check_ndk_api", <<ndk_api, android_api>>, check_ndk_api(ndk_api, android_api))

CheckPythonVersion ==
    Called("check_python_version", <<>>, check_python_version)

PrintRecommendations ==
    Called("print_recommendations", <<>>, print_recommendations)

\* The checks share no input: the NDK checks read only the directory, the
\* interpreter check reads only sys.version_info.  The environment therefore
\* varies one part at a time.
Init ==
    /\ \/ fs \in [Dirs -> Files] /\ pyver = DefaultPyVer
       \/ fs = DefaultFs /\ pyver \in PyVers
    /\ call = [fn |-> "none", args |-> <<>>]
    /\ result = NoResult
    /\ prevSame = NoResult

Next ==
    \/ ReadNdkVersion
    \/ CheckNdkVersion
    \/ CheckTargetApi
    \/ CheckNdkApi
    \/ CheckPythonVersion
    \/ PrintRecommendations

Spec == Init /\ [][Next]_vars

----------------------------------------------------------------------------
\* Properties

BIE == "BuildInterruptingException"

\* what read_ndk_version finds in the directory of the last call
ReadNow == read_ndk_version(NDK_DIR)

\* the last call was check_ndk_version on a directory whose version was read
NdkVersionChecked ==
    /\ call.fn = "check_ndk_version"
    /\ ReadNow.exc = "none"
    /\ ReadNow.ret # NoVersion

\* the labels that the last call logged as "Found NDK version ..."
FoundLabels ==
    {result.log[i].msg.args[1] :
        i \in {j \in 1..Len(result.log) :
                  result.log[j].msg.template = "CURRENT_NDK_VERSION_MESSAGE"}}

\* C1: check_ndk_version decides on the major alone: below 27 it raises the
\* fatal error, at 27 it returns with the "Found NDK version" info as its
\* only log, above 27 it returns after warning.
C1_NdkMajorDecides ==
    NdkVersionChecked =>
        LET ma == major(ReadNow.ret)
        IN  /\ ma < 27 => result.exc = BIE
            /\ ma = 27 =>
                /\ result.exc = "none"
                /\ Len(result.log) = 1
                /\ result.log[1].level = "info"
                /\ result.log[1].msg.template = "CURRENT_NDK_VERSION_MESSAGE"
            /\ ma > 27 =>
                /\ result.exc = "none"
                /\ Len(Warnings(result)) >= 1

C1_Witness ==
    /\ NdkVersionChecked
    /\ major(ReadNow.ret) = 27
    /\ minor(ReadNow.ret) = 2
    /\ result.exc = "none"
    /\ Len(result.log) = 1

\* C2: check_target_api has exactly one of three outcomes, in this order:
\* armeabi at API 21 or more is fatal without any warning; otherwise an API
\* below 30 gives exactly two warnings; otherwise nothing is logged.
C2_TargetApiOutcomes ==
    call.fn = "check_target_api" =>
        LET api == call.args[1]
            arch == call.args[2]
        IN  IF arch = "armeabi" /\ api >= 21
            THEN result.exc = BIE /\ result.log = <<>>
            ELSE IF api < 30
            THEN /\ result.exc = "none"
                 /\ Len(result.log) = 2
                 /\ Len(Warnings(result)) = 2
            ELSE result.exc = "none" /\ result.log = <<>>

C2_Witness ==
    /\ call.fn = "check_target_api"
    /\ call.args = <<22, "armeabi">>
    /\ result.exc = BIE
    /\ result.log = <<>>

\* C3: check_ndk_api has exactly one of three outcomes, in this order: an NDK
\* API above the Android API is fatal without any warning (also below 21);
\* otherwise an NDK API below 21 gives one warning; otherwise nothing.
C3_NdkApiOutcomes ==
    call.fn = "check_ndk_api" =>
        LET ndk_api == call.args[1]
            android_api == call.args[2]
        IN  IF ndk_api > android_api
            THEN result.exc = BIE /\ result.log = <<>>
            ELSE IF ndk_api < 21
            THEN /\ result.exc = "none"
                 /\ Len(result.log) = 1
                 /\ Len(Warnings(result)) = 1
            ELSE result.exc = "none" /\ result.log = <<>>

C3_Witness ==
    /\ call.fn = "check_ndk_api"
    /\ call.args[1] < 21
    /\ call.args[1] > call.args[2]
    /\ result.exc = BIE
    /\ result.log = <<>>

\* C4: unreadable or unparseable version data never raises: whenever no
\* version can be read, read_ndk_version returns absent and check_ndk_version
\* returns normally after its two warnings (read failure, guidance).
C4_UnreadableNeverRaises ==
    (/\ call.fn \in {"read_ndk_version", "check_ndk_version"}
     /\ ReadNow.ret = NoVersion) =>
        /\ result.exc = "none"
        /\ result.ret = NoVersion
        /\ call.fn = "check_ndk_version" =>
            /\ Len(Warnings(result)) = 2
            /\ Warnings(result)[1].msg.template = "READ_ERROR_NDK_MESSAGE"
            /\ Warnings(result)[2].msg.template = "ENSURE_RIGHT_NDK_MESSAGE"

\* C5 as stated: every fatal error of every check function carries a message
\* and non-empty remediation instructions.
C5_EveryFatalHasInstructions ==
    result.exc = BIE =>
        /\ result.message # NoMsg
        /\ result.instructions # NoMsg

\* C5 as amended: every fatal error carries a message; those of
\* check_ndk_version, check_target_api and check_ndk_api also carry non-empty
\* remediation instructions, those of check_python_version carry none.
C5_FatalFields ==
    result.exc = BIE =>
        /\ result.message # NoMsg
        /\ call.fn \in {"check_ndk_version", "check_target_api", "check_ndk_api"}
              => result.instructions # NoMsg
        /\ call.fn = "check_python_version" => result.instructions = NoMsg

C5_Witness ==
    /\ call.fn = "check_target_api"
    /\ result.exc = BIE
    /\ result.message.template = "UNSUPPORTED_NDK_API_FOR_ARMEABI_MESSAGE"
    /\ result.instructions.template = "Use --arch=armeabi-v7a instead."

\* C6: check_python_version raises the fixed Python 2 error when the major is
\* 2, the error naming the running and the minimum version when major.minor
\* is below 3.6, and otherwise returns without any log.
C6_PythonVersionOutcomes ==
    call.fn = "check_python_version" =>
        LET ma == pyver[1]
            mi == pyver[2]
        IN  IF ma = 2
            THEN /\ result.exc = BIE
                 /\ result.message = Msg("PY2_ERROR_TEXT", << <<"3", ".", "6">> >>)
            ELSE IF ma < 3 \/ (ma = 3 /\ mi < 6)
            THEN /\ result.exc = BIE
                 /\ result.message =
                        Msg("PY_VERSION_ERROR_TEXT",
                            <<str(ma) \o <<".">> \o str(mi), <<"3", ".", "6">> >>)
            ELSE result.exc = "none" /\ result.log = <<>>

C6_Witness ==
    /\ call.fn = "check_python_version"
    /\ pyver = <<3, 10>>
    /\ result.exc = "none"

\* the suffix that the specification gives a minor number
SuffixLetters ==
    <<"b", "c", "d", "e", "f", "g", "h", "i", "j", "k", "l", "m", "n",
      "o", "p", "q", "r", "s", "t", "u", "v", "w", "x", "y", "z">>

ExpectedSuffix(mi) ==
    IF mi >= 1 /\ mi <= 25 THEN <<SuffixLetters[mi]>> ELSE <<>>

\* C7: the label check_ndk_version logs is the major followed by no suffix
\* for minor 0, the letter b..z for minors 1..25, no suffix from minor 26 on.
C7_VersionLabel ==
    NdkVersionChecked =>
        FoundLabels =
            {str(major(ReadNow.ret)) \o ExpectedSuffix(minor(ReadNow.ret))}

C7_Witness ==
    /\ NdkVersionChecked
    /\ minor(ReadNow.ret) = 25
    /\ \E label \in FoundLabels : label[Len(label)] = "z"

\* the lines of the readable source.properties and those that begin with
\* the key
FileLines == splitlines(fs[NDK_DIR].data)

KeyLines == {i \in 1..Len(FileLines) : startswith(FileLines[i], PKG_REVISION)}

FirstKeyLine == CHOOSE i \in KeyLines : \A j \in KeyLines : i <= j

\* the whitespace-trimmed text after the last '=' of a line
ValueOf(line) ==
    LET eqs == {k \in 1..Len(line) : line[k] = "="}
        last == IF eqs = {} THEN 0 ELSE CHOOSE k \in eqs : \A j \in eqs : j <= k
    IN  strip(SubSeq(line, last + 1, Len(line)))

\* C8: read_ndk_version uses only the first line that begins with
\* Pkg.Revision: it returns the version parsed from the trimmed text after
\* that line's last '=', whatever follows; without such a line it returns
\* absent.
C8_FirstRevisionLine ==
    (call.fn = "read_ndk_version" /\ fs[NDK_DIR].kind = "text") =>
        IF KeyLines = {}
        THEN result.exc = "none" /\ result.ret = NoVersion
        ELSE LET parsed == parse(ValueOf(FileLines[FirstKeyLine]))
             IN  /\ parsed.ok => result.exc = "none" /\ result.ret = parsed.version
                 /\ ~parsed.ok => result.exc = "InvalidVersion"
                 /\ FileLines[FirstKeyLine] = LineRev27 =>
                        major(result.ret) = 27 /\ minor(result.ret) = 2

C8_Witness ==
    /\ call.fn = "read_ndk_version"
    /\ FileLines = <<LineTwoEquals, LineRev27>>
    /\ result.exc = "none"
    /\ result.ret = Version(<<28, 26>>)

\* C9: a check called twice in a row with the same inputs has the same
\* outcome both times: same exception, same message, same logs.
C9_Idempotent ==
    (/\ call.fn \in {"check_ndk_version", "check_target_api",
                     "check_ndk_api", "check_python_version"}
     /\ prevSame # NoResult) =>
        result = prevSame

C9_Witness ==
    /\ call.fn = "check_ndk_api"
    /\ prevSame # NoResult
    /\ Len(Warnings(prevSame)) = 1
    /\ Len(Warnings(result)) = 1

\* C10: for the NDK that RECOMMENDED_NDK_VERSION names (28c: major 28,
\* minor 2) check_ndk_version logs the label 28c, raises nothing and warns
\* about nothing.
C10_RecommendedNdkIsClean ==
    (/\ NdkVersionChecked
     /\ major(ReadNow.ret) = 28
     /\ minor(ReadNow.ret) = 2) =>
        /\ FoundLabels = {RECOMMENDED_NDK_VERSION}
        /\ result.exc = "none"
        /\ Warnings(result) = <<>>

=============================================================================
